---- MODULE Spec2Model ----
(***************************************************************************)
(* Two-level TLB (src/src/tlb.c): two fully-associative arrays with LRU    *)
(* replacement, dirty tracking, write-back cascade L1 -> L2 -> sink, and   *)
(* hit/miss/invalidation statistics.                                       *)
(***************************************************************************)
EXTENDS Integers, Sequences, FiniteSets, TLC

(* ------------------------------------------------------------------ *)
(* Sizes of the model.  The capacities, the page size and the          *)
(* latencies come from constants.h; the values below are small ones    *)
(* (the spec's scenario uses capacities 2 and 2).  NumVPN pages and    *)
(* NumPPN frames exist; a run makes at most MaxOps calls and the page  *)
(* table changes at most MaxRemaps times; the arrays handed to victim  *)
(* selection on its own carry last_access stamps up to MaxStamp.        *)
(* ------------------------------------------------------------------ *)
TLB_L1_SIZE == 2
TLB_L2_SIZE == 2
NumVPN == 3
NumPPN == 3
MaxOps == 5
MaxRemaps == 1
MaxStamp == 2

PAGE_SIZE_BITS == 2
TLB_L1_LATENCY_NS == 1
TLB_L2_LATENCY_NS == 3
PT_LATENCY_NS == 7

OP_READ == "OP_READ"
OP_WRITE == "OP_WRITE"

RECURSIVE Pow2(_)
Pow2(n) == IF n = 0 THEN 1 ELSE 2 * Pow2(n - 1)

PAGE_OFFSET_MASK == Pow2(PAGE_SIZE_BITS) - 1

VPNs == 0 .. (NumVPN - 1)
PPNs == 1 .. NumPPN
Offsets == {0, PAGE_OFFSET_MASK}
Ops == {OP_READ, OP_WRITE}
VAs == {v * Pow2(PAGE_SIZE_BITS) + o : v \in VPNs, o \in Offsets}

L1Idx == 0 .. (TLB_L1_SIZE - 1)
L2Idx == 0 .. (TLB_L2_SIZE - 1)

(* ------------------------------------------------------------------ *)
(* Bit operations on naturals                                          *)
(* ------------------------------------------------------------------ *)
RECURSIVE BitAnd(_, _)
BitAnd(a, b) ==
  IF a = 0 \/ b = 0 THEN 0
  ELSE (IF a % 2 = 1 /\ b % 2 = 1 THEN 1 ELSE 0) + 2 * BitAnd(a \div 2, b \div 2)

RECURSIVE BitOr(_, _)
BitOr(a, b) ==
  IF a = 0 THEN b
  ELSE IF b = 0 THEN a
  ELSE (IF a % 2 = 1 \/ b % 2 = 1 THEN 1 ELSE 0) + 2 * BitOr(a \div 2, b \div 2)

ShiftRight(a, n) == a \div Pow2(n)
ShiftLeft(a, n) == a * Pow2(n)

(* ------------------------------------------------------------------ *)
(* Address decomposition                                               *)
(* ------------------------------------------------------------------ *)
va_to_vpn(va) == ShiftRight(va, PAGE_SIZE_BITS)
va_offset(va) == BitAnd(va, PAGE_OFFSET_MASK)
pa_to_ppn(pa) == ShiftRight(pa, PAGE_SIZE_BITS)
compose_pa(ppn, off) == BitOr(ShiftLeft(ppn, PAGE_SIZE_BITS), off)

(* ------------------------------------------------------------------ *)
(* State                                                               *)
(* ------------------------------------------------------------------ *)
VARIABLES
  tlb_l1, tlb_l2,
  tlb_l1_hits, tlb_l1_misses, tlb_l1_invalidations,
  tlb_l2_hits, tlb_l2_misses, tlb_l2_invalidations,
  lru_tick, lru_tick2,
  time,          \* simulated clock advanced by increment_time
  pt,            \* the resolver's current VPN -> PPN mapping
  call,          \* the last call made by the simulator
  ret,           \* value returned by the last tlb_translate
  wb_calls,      \* write_back_tlb_entry calls of the last call, in order
  pt_calls,      \* page_table_translate calls of the last call, in order
  l2_inserts,    \* l2_insert calls of the last call, in order
  l2_resets,     \* L2 slots reset to invalid by the last call, in order
  nops,          \* calls made so far
  nremaps,       \* page-table updates made so far
  stale,         \* pages whose frame changed since their last tlb_invalidate
  translate_calls, \* tlb_translate calls since the last tlb_init
  written,       \* page -> a WRITE translate targeted it since the last tlb_init
  wframe,        \* page -> frame its last WRITE translate was directed to
  unsunk,        \* page -> written since its frame last reached the sink
  sunk,          \* page -> sink invocations for the page since its last write
  fill1, fill2   \* per level: the pages inserted since tlb_init while the level
                 \* saw only inserts of absent pages (ok), in insertion order

prog == <<tlb_l1, tlb_l2, tlb_l1_hits, tlb_l1_misses, tlb_l1_invalidations,
          tlb_l2_hits, tlb_l2_misses, tlb_l2_invalidations, lru_tick, lru_tick2>>
env == <<time, pt, call, ret, wb_calls, pt_calls, l2_inserts, l2_resets,
         nops, nremaps, stale>>
obs == <<translate_calls, written, wframe, unsunk, sunk, fill1, fill2>>

tlb_entry_t(valid, dirty, last_access, vpn, ppn) ==
  [valid |-> valid, dirty |-> dirty, last_access |-> last_access,
   virtual_page_number |-> vpn, physical_page_number |-> ppn]

ZeroEntry == tlb_entry_t(FALSE, FALSE, 0, 0, 0)

\* The program's globals and the collaborators' logs as one record, threaded
\* through the operators below the way the C functions share the globals.
Globals ==
  [l1 |-> tlb_l1, l2 |-> tlb_l2,
   l1_hits |-> tlb_l1_hits, l1_misses |-> tlb_l1_misses,
   l1_invalidations |-> tlb_l1_invalidations,
   l2_hits |-> tlb_l2_hits, l2_misses |-> tlb_l2_misses,
   l2_invalidations |-> tlb_l2_invalidations,
   lru_tick |-> lru_tick, lru_tick2 |-> lru_tick2,
   time |-> time, pt |-> pt,
   wb |-> <<>>, ptc |-> <<>>, l2i |-> <<>>, rst |-> <<>>, ret |-> 0]

(* ------------------------------------------------------------------ *)
(* Collaborators                                                       *)
(* ------------------------------------------------------------------ *)
increment_time(m, ns) == [m EXCEPT !.time = @ + ns]

\* The sink records the frame address it is handed; vpn is the page the
\* written-back entry cached (kept for the statements about pages), l2 the
\* L2 array at the moment of the call and seq the number of L2 slots the
\* running call has reset so far.
write_back_tlb_entry(m, pa, vpn) ==
  [m EXCEPT !.wb = Append(@, [pa |-> pa, vpn |-> vpn,
                              l2 |-> m.l2, seq |-> Len(m.rst)])]

\* The resolver walks the page table: frame of the page, offset of the address.
\* The call is logged with its arguments and its result pa.
page_table_translate(m, va, op) ==
  [m EXCEPT !.ptc = Append(@, [va |-> va, op |-> op,
                               pa |-> compose_pa(m.pt[va_to_vpn(va)], va_offset(va))]),
            !.time = @ + PT_LATENCY_NS,
            !.ret = compose_pa(m.pt[va_to_vpn(va)], va_offset(va))]

(* ------------------------------------------------------------------ *)
(* Lookup                                                              *)
(* ------------------------------------------------------------------ *)
RECURSIVE l1_find_from(_, _, _)
l1_find_from(l1, vpn, i) ==
  IF i >= TLB_L1_SIZE THEN -1
  ELSE IF l1[i].valid /\ l1[i].virtual_page_number = vpn THEN i
  ELSE l1_find_from(l1, vpn, i + 1)

\* l1_find whose scan starts one slot late.
l1_find_skip_first(l1, vpn) == l1_find_from(l1, vpn, 1)

l1_find(l1, vpn) == l1_find_from(l1, vpn, 0)

RECURSIVE l2_find_from(_, _, _)
l2_find_from(l2, vpn, i) ==
  IF i >= TLB_L2_SIZE THEN -1
  ELSE IF l2[i].valid /\ l2[i].virtual_page_number = vpn THEN i
  ELSE l2_find_from(l2, vpn, i + 1)

l2_find(l2, vpn) == l2_find_from(l2, vpn, 0)

(* ------------------------------------------------------------------ *)
(* Victim selection                                                    *)
(* ------------------------------------------------------------------ *)
RECURSIVE first_invalid(_, _, _)
first_invalid(arr, size, i) ==
  IF i >= size THEN -1
  ELSE IF ~arr[i].valid THEN i
  ELSE first_invalid(arr, size, i + 1)

\* lru_scan with the comparison turned round: picks the most recently used.
RECURSIVE lru_scan_mru(_, _, _, _, _)
lru_scan_mru(arr, size, i, victim, best) ==
  IF i >= size THEN victim
  ELSE IF arr[i].last_access > best
       THEN lru_scan_mru(arr, size, i + 1, i, arr[i].last_access)
       ELSE lru_scan_mru(arr, size, i + 1, victim, best)

\* lru_scan whose comparison also takes an equal stamp: the last of the
\* least recently used slots wins.
RECURSIVE lru_scan_last_tie(_, _, _, _, _)
lru_scan_last_tie(arr, size, i, victim, best) ==
  IF i >= size THEN victim
  ELSE IF arr[i].last_access <= best
       THEN lru_scan_last_tie(arr, size, i + 1, i, arr[i].last_access)
       ELSE lru_scan_last_tie(arr, size, i + 1, victim, best)

RECURSIVE lru_scan(_, _, _, _, _)
lru_scan(arr, size, i, victim, best) ==
  IF i >= size THEN victim
  ELSE IF arr[i].last_access < best
       THEN lru_scan(arr, size, i + 1, i, arr[i].last_access)
       ELSE lru_scan(arr, size, i + 1, victim, best)

l1_choose_victim(l1) ==
  IF first_invalid(l1, TLB_L1_SIZE, 0) >= 0
  THEN first_invalid(l1, TLB_L1_SIZE, 0)
  ELSE lru_scan(l1, TLB_L1_SIZE, 1, 0, l1[0].last_access)

l2_choose_victim(l2) ==
  IF first_invalid(l2, TLB_L2_SIZE, 0) >= 0
  THEN first_invalid(l2, TLB_L2_SIZE, 0)
  ELSE lru_scan(l2, TLB_L2_SIZE, 1, 0, l2[0].last_access)

(* ------------------------------------------------------------------ *)
(* Eviction and insert                                                 *)
(* ------------------------------------------------------------------ *)
\* Observer: L2 slot idx has just been reset; l2 is the array right after.
LogReset(m, idx) == [m EXCEPT !.rst = Append(@, [idx |-> idx, l2 |-> m.l2])]

\* l2_evict_entry that resets the slot without handing the frame to the sink.
l2_evict_entry_no_writeback(m, idx) ==
  IF idx < 0 THEN m
  ELSE LogReset([m EXCEPT !.l2[idx].valid = FALSE,
                          !.l2[idx].dirty = FALSE,
                          !.l2[idx].last_access = 0], idx)

l2_evict_entry(m, idx) ==
  IF idx < 0 THEN m
  ELSE LET m1 == IF m.l2[idx].valid /\ m.l2[idx].dirty
                 THEN write_back_tlb_entry(m,
                        compose_pa(m.l2[idx].physical_page_number, 0),
                        m.l2[idx].virtual_page_number)
                 ELSE m
       IN LogReset([m1 EXCEPT !.l2[idx].valid = FALSE,
                              !.l2[idx].dirty = FALSE,
                              !.l2[idx].last_access = 0], idx)

\* The call is logged with its arguments, whether the page has no entry yet
\* (fresh) and the L2 array it finds.
l2_insert(m, vpn, ppn, dirty) ==
  LET m0 == [m EXCEPT !.l2i = Append(@, [vpn |-> vpn, ppn |-> ppn, dirty |-> dirty,
                                          fresh |-> (l2_find(m.l2, vpn) < 0),
                                          l2 |-> m.l2])]
      idx == l2_find(m0.l2, vpn)
  IN IF idx >= 0
     THEN [m0 EXCEPT !.l2[idx].physical_page_number = ppn,
                     !.l2[idx].dirty = (m0.l2[idx].dirty \/ dirty),
                     !.l2[idx].last_access = m0.lru_tick2 + 1,
                     !.l2[idx].valid = TRUE,
                     !.lru_tick2 = @ + 1]
     ELSE LET victim == l2_choose_victim(m0.l2)
              m1 == l2_evict_entry(m0, victim)
          IN [m1 EXCEPT !.l2[victim] =
                          tlb_entry_t(TRUE, dirty, m1.lru_tick2 + 1, vpn, ppn),
                        !.lru_tick2 = @ + 1]

\* l1_evict_entry that drops a dirty victim instead of inserting it into L2.
l1_evict_entry_no_promote(m, idx) ==
  IF idx < 0 THEN m
  ELSE [m EXCEPT !.l1[idx].valid = FALSE,
                 !.l1[idx].dirty = FALSE,
                 !.l1[idx].last_access = 0]

\* l1_evict_entry that inserts the dirty victim into L2 as clean.
l1_evict_entry_clean(m, idx) ==
  IF idx < 0 THEN m
  ELSE LET m1 == IF m.l1[idx].valid /\ m.l1[idx].dirty
                 THEN l2_insert(m, m.l1[idx].virtual_page_number,
                                m.l1[idx].physical_page_number, FALSE)
                 ELSE m
       IN [m1 EXCEPT !.l1[idx].valid = FALSE,
                     !.l1[idx].dirty = FALSE,
                     !.l1[idx].last_access = 0]

l1_evict_entry(m, idx) ==
  IF idx < 0 THEN m
  ELSE LET m1 == IF m.l1[idx].valid /\ m.l1[idx].dirty
                 THEN l2_insert(m, m.l1[idx].virtual_page_number,
                                m.l1[idx].physical_page_number, TRUE)
                 ELSE m
       IN [m1 EXCEPT !.l1[idx].valid = FALSE,
                     !.l1[idx].dirty = FALSE,
                     !.l1[idx].last_access = 0]

l1_insert(m, vpn, ppn, dirty) ==
  LET idx == l1_find(m.l1, vpn)
  IN IF idx >= 0
     THEN [m EXCEPT !.l1[idx].physical_page_number = ppn,
                    !.l1[idx].dirty = (m.l1[idx].dirty \/ dirty),
                    !.l1[idx].last_access = m.lru_tick + 1,
                    !.l1[idx].valid = TRUE,
                    !.lru_tick = @ + 1]
     ELSE LET victim == l1_choose_victim(m.l1)
              m1 == l1_evict_entry(m, victim)
          IN [m1 EXCEPT !.l1[victim] =
                          tlb_entry_t(TRUE, dirty, m1.lru_tick + 1, vpn, ppn),
                        !.lru_tick = @ + 1]

(* ------------------------------------------------------------------ *)
(* Public entry points                                                 *)
(* ------------------------------------------------------------------ *)
tlb_init(m) ==
  [m EXCEPT !.l1 = [i \in L1Idx |-> ZeroEntry],
            !.l2 = [i \in L2Idx |-> ZeroEntry],
            !.l1_hits = 0, !.l1_misses = 0, !.l1_invalidations = 0,
            !.l2_hits = 0, !.l2_misses = 0, !.l2_invalidations = 0,
            !.lru_tick = 0, !.lru_tick2 = 0]

\* invalidate_l1 with the counter incremented outside the match.
invalidate_l1_count_always(m, vpn) ==
  LET i == l1_find(m.l1, vpn)
  IN IF i < 0 THEN [m EXCEPT !.l1_invalidations = @ + 1]
     ELSE LET m1 == IF m.l1[i].dirty
                    THEN l2_insert(m, m.l1[i].virtual_page_number,
                                   m.l1[i].physical_page_number, TRUE)
                    ELSE m
          IN [m1 EXCEPT !.l1[i].valid = FALSE,
                        !.l1[i].dirty = FALSE,
                        !.l1[i].last_access = 0,
                        !.l1_invalidations = @ + 1]

\* invalidate_l1 that leaves the entry's last_access stamp in place.
invalidate_l1_keep_stamp(m, vpn) ==
  LET i == l1_find(m.l1, vpn)
  IN IF i < 0 THEN m
     ELSE LET m1 == IF m.l1[i].dirty
                    THEN l2_insert(m, m.l1[i].virtual_page_number,
                                   m.l1[i].physical_page_number, TRUE)
                    ELSE m
          IN [m1 EXCEPT !.l1[i].valid = FALSE,
                        !.l1[i].dirty = FALSE,
                        !.l1_invalidations = @ + 1]

\* invalidate_l1 that hands a dirty L1 entry to the sink itself.
invalidate_l1_direct_writeback(m, vpn) ==
  LET i == l1_find(m.l1, vpn)
  IN IF i < 0 THEN m
     ELSE LET m1 == IF m.l1[i].dirty
                    THEN write_back_tlb_entry(m,
                           compose_pa(m.l1[i].physical_page_number, 0),
                           m.l1[i].virtual_page_number)
                    ELSE m
          IN [m1 EXCEPT !.l1[i].valid = FALSE,
                        !.l1[i].dirty = FALSE,
                        !.l1[i].last_access = 0,
                        !.l1_invalidations = @ + 1]

\* The L1 half of tlb_invalidate: the scan stops at the first valid match.
invalidate_l1(m, vpn) ==
  LET i == l1_find(m.l1, vpn)
  IN IF i < 0 THEN m
     ELSE LET m1 == IF m.l1[i].dirty
                    THEN l2_insert(m, m.l1[i].virtual_page_number,
                                   m.l1[i].physical_page_number, TRUE)
                    ELSE m
          IN [m1 EXCEPT !.l1[i].valid = FALSE,
                        !.l1[i].dirty = FALSE,
                        !.l1[i].last_access = 0,
                        !.l1_invalidations = @ + 1]

\* invalidate_l2 that leaves the entry's dirty flag set.
invalidate_l2_keep_dirty(m, vpn) ==
  LET i == l2_find(m.l2, vpn)
  IN IF i < 0 THEN m
     ELSE LET m1 == IF m.l2[i].dirty
                    THEN write_back_tlb_entry(m,
                           compose_pa(m.l2[i].physical_page_number, 0),
                           m.l2[i].virtual_page_number)
                    ELSE m
          IN LogReset([m1 EXCEPT !.l2[i].valid = FALSE,
                                 !.l2[i].last_access = 0,
                                 !.l2_invalidations = @ + 1], i)

\* invalidate_l2 that writes a dirty entry back and leaves the entry valid.
invalidate_l2_keep_valid(m, vpn) ==
  LET i == l2_find(m.l2, vpn)
  IN IF i < 0 THEN m
     ELSE LET m1 == IF m.l2[i].dirty
                    THEN write_back_tlb_entry(m,
                           compose_pa(m.l2[i].physical_page_number, 0),
                           m.l2[i].virtual_page_number)
                    ELSE m
          IN [m1 EXCEPT !.l2[i].dirty = FALSE,
                        !.l2_invalidations = @ + 1]

\* The L2 half of tlb_invalidate.
invalidate_l2(m, vpn) ==
  LET i == l2_find(m.l2, vpn)
  IN IF i < 0 THEN m
     ELSE LET m1 == IF m.l2[i].dirty
                    THEN write_back_tlb_entry(m,
                           compose_pa(m.l2[i].physical_page_number, 0),
                           m.l2[i].virtual_page_number)
                    ELSE m
          IN LogReset([m1 EXCEPT !.l2[i].valid = FALSE,
                                 !.l2[i].dirty = FALSE,
                                 !.l2[i].last_access = 0,
                                 !.l2_invalidations = @ + 1], i)

\* tlb_invalidate that charges the L1 latency only.
tlb_invalidate_l1_latency_only(m, virtual_page_number) ==
  invalidate_l2(
    invalidate_l1(
      increment_time(m, TLB_L1_LATENCY_NS),
      virtual_page_number),
    virtual_page_number)

\* tlb_invalidate that scans L2 before L1.
tlb_invalidate_l2_first(m, virtual_page_number) ==
  invalidate_l1(
    invalidate_l2(
      increment_time(m, TLB_L1_LATENCY_NS + TLB_L2_LATENCY_NS),
      virtual_page_number),
    virtual_page_number)

tlb_invalidate(m, virtual_page_number) ==
  invalidate_l2(
    invalidate_l1(
      increment_time(m, TLB_L1_LATENCY_NS + TLB_L2_LATENCY_NS),
      virtual_page_number),
    virtual_page_number)

\* translate_l1_hit that forgets to count the hit.
translate_l1_hit_no_count(m, idx1, off, op) ==
  [m EXCEPT !.l1[idx1].last_access = m.lru_tick + 1,
            !.lru_tick = @ + 1,
            !.l1[idx1].dirty = IF op = OP_WRITE THEN TRUE ELSE @,
            !.ret = compose_pa(m.l1[idx1].physical_page_number, off)]

\* translate_l1_hit that on a write also marks the L2 copy of the page dirty.
translate_l1_hit_dirty_l2(m, idx1, off, op) ==
  [m EXCEPT !.l1_hits = @ + 1,
            !.l1[idx1].last_access = m.lru_tick + 1,
            !.lru_tick = @ + 1,
            !.l1[idx1].dirty = IF op = OP_WRITE THEN TRUE ELSE @,
            !.l2 = [i \in L2Idx |->
                      IF /\ op = OP_WRITE /\ @[i].valid
                         /\ @[i].virtual_page_number = m.l1[idx1].virtual_page_number
                      THEN [@[i] EXCEPT !.dirty = TRUE]
                      ELSE @[i]],
            !.ret = compose_pa(m.l1[idx1].physical_page_number, off)]

translate_l1_hit(m, idx1, off, op) ==
  [m EXCEPT !.l1_hits = @ + 1,
            !.l1[idx1].last_access = m.lru_tick + 1,
            !.lru_tick = @ + 1,
            !.l1[idx1].dirty = IF op = OP_WRITE THEN TRUE ELSE @,
            !.ret = compose_pa(m.l1[idx1].physical_page_number, off)]

\* translate_l2_hit that does not bring the translation into L1.
translate_l2_hit_no_l1(m, idx2, vpn, off, op) ==
  LET m1 == [m EXCEPT !.l2_hits = @ + 1,
                      !.l2[idx2].last_access = m.lru_tick2 + 1,
                      !.lru_tick2 = @ + 1,
                      !.l2[idx2].dirty = IF op = OP_WRITE THEN TRUE ELSE @]
      ppn == m1.l2[idx2].physical_page_number
  IN [m1 EXCEPT !.ret = compose_pa(ppn, off)]

\* translate_l2_hit that stamps the hit entry without advancing lru_tick2.
translate_l2_hit_stale_stamp(m, idx2, vpn, off, op) ==
  LET m1 == [m EXCEPT !.l2_hits = @ + 1,
                      !.l2[idx2].last_access = m.lru_tick2,
                      !.l2[idx2].dirty = IF op = OP_WRITE THEN TRUE ELSE @]
      ppn == m1.l2[idx2].physical_page_number
      m2 == l1_insert(m1, vpn, ppn, op = OP_WRITE)
  IN [m2 EXCEPT !.ret = compose_pa(ppn, off)]

translate_l2_hit(m, idx2, vpn, off, op) ==
  LET m1 == [m EXCEPT !.l2_hits = @ + 1,
                      !.l2[idx2].last_access = m.lru_tick2 + 1,
                      !.lru_tick2 = @ + 1,
                      !.l2[idx2].dirty = IF op = OP_WRITE THEN TRUE ELSE @]
      ppn == m1.l2[idx2].physical_page_number
      m2 == l1_insert(m1, vpn, ppn, op = OP_WRITE)
  IN [m2 EXCEPT !.ret = compose_pa(ppn, off)]

\* translate_l2_miss that inserts the L2 entry clean whatever the access.
translate_l2_miss_clean_l2(m, virtual_address, vpn, op) ==
  LET m1 == page_table_translate([m EXCEPT !.l2_misses = @ + 1], virtual_address, op)
      pa == m1.ret
      ppn == pa_to_ppn(pa)
      m2 == l1_insert(m1, vpn, ppn, op = OP_WRITE)
      m3 == l2_insert(m2, vpn, ppn, FALSE)
  IN [m3 EXCEPT !.ret = pa]

\* translate_l2_miss that stores the whole physical address in L2 instead of
\* the frame number.
translate_l2_miss_pa_in_l2(m, virtual_address, vpn, op) ==
  LET m1 == page_table_translate([m EXCEPT !.l2_misses = @ + 1], virtual_address, op)
      pa == m1.ret
      ppn == pa_to_ppn(pa)
      m2 == l1_insert(m1, vpn, ppn, op = OP_WRITE)
      m3 == l2_insert(m2, vpn, pa, op = OP_WRITE)
  IN [m3 EXCEPT !.ret = pa]

translate_l2_miss(m, virtual_address, vpn, op) ==
  LET m1 == page_table_translate([m EXCEPT !.l2_misses = @ + 1], virtual_address, op)
      pa == m1.ret
      ppn == pa_to_ppn(pa)
      m2 == l1_insert(m1, vpn, ppn, op = OP_WRITE)
      m3 == l2_insert(m2, vpn, ppn, op = OP_WRITE)
  IN [m3 EXCEPT !.ret = pa]

tlb_translate(m, virtual_address, op) ==
  LET m0 == increment_time(m, TLB_L1_LATENCY_NS)
      vpn == va_to_vpn(virtual_address)
      off == va_offset(virtual_address)
      idx1 == l1_find(m0.l1, vpn)
  IN IF idx1 >= 0
     THEN translate_l1_hit(m0, idx1, off, op)
     ELSE LET m1 == increment_time([m0 EXCEPT !.l1_misses = @ + 1], TLB_L2_LATENCY_NS)
              idx2 == l2_find(m1.l2, vpn)
          IN IF idx2 >= 0
             THEN translate_l2_hit(m1, idx2, vpn, off, op)
             ELSE translate_l2_miss(m1, virtual_address, vpn, op)

(* ------------------------------------------------------------------ *)
(* The simulator's calls                                               *)
(* ------------------------------------------------------------------ *)
Commit(m, c) ==
  /\ tlb_l1' = m.l1
  /\ tlb_l2' = m.l2
  /\ tlb_l1_hits' = m.l1_hits
  /\ tlb_l1_misses' = m.l1_misses
  /\ tlb_l1_invalidations' = m.l1_invalidations
  /\ tlb_l2_hits' = m.l2_hits
  /\ tlb_l2_misses' = m.l2_misses
  /\ tlb_l2_invalidations' = m.l2_invalidations
  /\ lru_tick' = m.lru_tick
  /\ lru_tick2' = m.lru_tick2
  /\ time' = m.time
  /\ pt' = m.pt
  /\ ret' = m.ret
  /\ wb_calls' = m.wb
  /\ pt_calls' = m.ptc
  /\ l2_inserts' = m.l2i
  /\ l2_resets' = m.rst
  /\ call' = c
  /\ nops' = nops + 1

(* ------------------------------------------------------------------ *)
(* Observers: what the calls did to each page, for the statements      *)
(* about write-backs and insertion order                               *)
(* ------------------------------------------------------------------ *)
\* Sink invocations in log that write back an entry of page v with the
\* frame-aligned address of frame.
RECURSIVE CountPage(_, _, _)
CountPage(log, v, frame) ==
  IF log = <<>> THEN 0
  ELSE (IF Head(log).vpn = v /\ Head(log).pa = compose_pa(frame, 0) THEN 1 ELSE 0)
       + CountPage(Tail(log), v, frame)

\* A call wrote page wv (wv = -1: no write), the write going to the address
\* the call returned, and handed the frames in m.wb to the sink.
ObserveWrites(m, wv) ==
  /\ written' = [u \in VPNs |-> written[u] \/ u = wv]
  /\ wframe' = [u \in VPNs |-> IF u = wv THEN pa_to_ppn(m.ret) ELSE wframe[u]]
  /\ unsunk' = [u \in VPNs |-> IF u = wv THEN TRUE
                                ELSE IF CountPage(m.wb, u, wframe[u]) > 0 THEN FALSE
                                ELSE unsunk[u]]
  /\ sunk' = [u \in VPNs |-> IF u = wv THEN 0
                              ELSE sunk[u] + CountPage(m.wb, u, wframe[u])]

NoFill == [ok |-> FALSE, seq |-> <<>>]
EmptyFill == [ok |-> TRUE, seq |-> <<>>]

RECURSIVE FillLog(_, _)
FillLog(f, log) ==
  IF log = <<>> THEN f
  ELSE IF ~f.ok \/ ~Head(log).fresh THEN NoFill
  ELSE FillLog([f EXCEPT !.seq = Append(@, Head(log).vpn)], Tail(log))

\* refreshed1/refreshed2: the call hit, or removed by invalidation, an entry
\* of the level.
ObserveFills(m, vpn, l1_inserted, refreshed1, refreshed2) ==
  /\ fill1' = IF refreshed1 \/ ~fill1.ok THEN NoFill
              ELSE IF l1_inserted THEN [fill1 EXCEPT !.seq = Append(@, vpn)]
              ELSE fill1
  /\ fill2' = IF refreshed2 THEN NoFill ELSE FillLog(fill2, m.l2i)

Init ==
  /\ tlb_l1 = [i \in L1Idx |-> ZeroEntry]
  /\ tlb_l2 = [i \in L2Idx |-> ZeroEntry]
  /\ tlb_l1_hits = 0 /\ tlb_l1_misses = 0 /\ tlb_l1_invalidations = 0
  /\ tlb_l2_hits = 0 /\ tlb_l2_misses = 0 /\ tlb_l2_invalidations = 0
  /\ lru_tick = 0 /\ lru_tick2 = 0
  /\ time = 0
  /\ pt = [v \in VPNs |-> (v % NumPPN) + 1]
  /\ call = [fn |-> "tlb_init", arg |-> 0, op |-> OP_READ]
  /\ ret = 0
  /\ wb_calls = <<>> /\ pt_calls = <<>> /\ l2_inserts = <<>> /\ l2_resets = <<>>
  /\ nops = 0 /\ nremaps = 0 /\ stale = {}
  /\ translate_calls = 0
  /\ written = [u \in VPNs |-> FALSE]
  /\ wframe = [u \in VPNs |-> 0]
  /\ unsunk = [u \in VPNs |-> FALSE]
  /\ sunk = [u \in VPNs |-> 0]
  /\ fill1 = EmptyFill /\ fill2 = EmptyFill

Initialize ==
  /\ nops < MaxOps
  /\ Commit(tlb_init(Globals), [fn |-> "tlb_init", arg |-> 0, op |-> OP_READ])
  /\ translate_calls' = 0
  /\ written' = [u \in VPNs |-> FALSE]
  /\ wframe' = [u \in VPNs |-> 0]
  /\ unsunk' = [u \in VPNs |-> FALSE]
  /\ sunk' = [u \in VPNs |-> 0]
  /\ fill1' = EmptyFill /\ fill2' = EmptyFill
  /\ UNCHANGED <<nremaps, stale>>

Translate(va, op) ==
  /\ nops < MaxOps
  /\ \E m \in {tlb_translate(Globals, va, op)} :
       LET vpn == va_to_vpn(va)
           hit1 == l1_find(tlb_l1, vpn) >= 0
           hit2 == ~hit1 /\ l2_find(tlb_l2, vpn) >= 0
       IN /\ Commit(m, [fn |-> "tlb_translate", arg |-> va, op |-> op])
          /\ ObserveWrites(m, IF op = OP_WRITE THEN vpn ELSE -1)
          /\ ObserveFills(m, vpn, ~hit1, hit1, hit2)
  /\ translate_calls' = translate_calls + 1
  /\ UNCHANGED <<nremaps, stale>>

Invalidate(vpn) ==
  /\ nops < MaxOps
  /\ \E m \in {tlb_invalidate(Globals, vpn)} :
       /\ Commit(m, [fn |-> "tlb_invalidate", arg |-> vpn, op |-> OP_READ])
       /\ ObserveWrites(m, -1)
       /\ ObserveFills(m, vpn, FALSE,
                       m.l1_invalidations > tlb_l1_invalidations,
                       m.l2_invalidations > tlb_l2_invalidations)
  /\ stale' = stale \ {vpn}
  /\ UNCHANGED <<translate_calls, nremaps>>

\* The page table changes the frame of a page (the resolver is free to answer
\* differently later on); the TLB is not told.
PageTableUpdate(vpn, ppn) ==
  /\ nops < MaxOps
  /\ nremaps < MaxRemaps
  /\ ppn # pt[vpn]
  /\ Commit([Globals EXCEPT !.pt[vpn] = ppn, !.ret = ret],
            [fn |-> "page_table_update", arg |-> vpn, op |-> OP_READ])
  /\ nremaps' = nremaps + 1
  /\ stale' = stale \cup {vpn}
  /\ UNCHANGED obs

Next ==
  \/ Initialize
  \/ \E va \in VAs, op \in Ops : Translate(va, op)
  \/ \E vpn \in VPNs : Invalidate(vpn)

\* The calls, with a page table that changes under the TLB.
NextRemap ==
  \/ Initialize
  \/ \E va \in VAs, op \in Ops : Translate(va, op)
  \/ \E vpn \in VPNs : Invalidate(vpn)
  \/ \E vpn \in VPNs, ppn \in PPNs : PageTableUpdate(vpn, ppn)

vars == <<tlb_l1, tlb_l2, tlb_l1_hits, tlb_l1_misses, tlb_l1_invalidations,
          tlb_l2_hits, tlb_l2_misses, tlb_l2_invalidations, lru_tick, lru_tick2,
          time, pt, call, ret, wb_calls, pt_calls, l2_inserts, l2_resets,
          nops, nremaps, stale,
          translate_calls, written, wframe, unsunk, sunk, fill1, fill2>>

Spec == Init /\ [][Next]_vars

SpecRemap == Init /\ [][NextRemap]_vars

(* ------------------------------------------------------------------ *)
(* Victim selection on its own: one insert into arrays of any content  *)
(* ------------------------------------------------------------------ *)
\* Slot i either invalid (reset) or valid for page i with any stamp up to
\* MaxStamp, equal stamps included; L2 entries clean or dirty.
L1Entries(i) ==
  {ZeroEntry} \cup {tlb_entry_t(TRUE, FALSE, t, i, pt[i]) : t \in 1 .. MaxStamp}
L2Entries(i) ==
  {ZeroEntry} \cup {tlb_entry_t(TRUE, d, t, i, pt[i]) : d \in BOOLEAN, t \in 1 .. MaxStamp}

L1Arrays == {a \in [L1Idx -> UNION {L1Entries(i) : i \in L1Idx}] :
               \A i \in L1Idx : a[i] \in L1Entries(i)}
L2Arrays == {a \in [L2Idx -> UNION {L2Entries(i) : i \in L2Idx}] :
               \A i \in L2Idx : a[i] \in L2Entries(i)}

InitVictim ==
  /\ pt = [v \in VPNs |-> (v % NumPPN) + 1]
  /\ tlb_l1 \in L1Arrays
  /\ tlb_l2 \in L2Arrays
  /\ tlb_l1_hits = 0 /\ tlb_l1_misses = 0 /\ tlb_l1_invalidations = 0
  /\ tlb_l2_hits = 0 /\ tlb_l2_misses = 0 /\ tlb_l2_invalidations = 0
  /\ lru_tick = MaxStamp /\ lru_tick2 = MaxStamp
  /\ time = 0
  /\ call = [fn |-> "tlb_init", arg |-> 0, op |-> OP_READ]
  /\ ret = 0
  /\ wb_calls = <<>> /\ pt_calls = <<>> /\ l2_inserts = <<>> /\ l2_resets = <<>>
  /\ nops = 0 /\ nremaps = 0 /\ stale = {}
  /\ translate_calls = 0
  /\ written = [u \in VPNs |-> FALSE]
  /\ wframe = [u \in VPNs |-> 0]
  /\ unsunk = [u \in VPNs |-> FALSE]
  /\ sunk = [u \in VPNs |-> 0]
  /\ fill1 = NoFill /\ fill2 = NoFill

InsertL1(vpn, op) ==
  /\ nops = 0
  /\ Commit(l1_insert(Globals, vpn, pt[vpn], op = OP_WRITE),
            [fn |-> "l1_insert", arg |-> vpn, op |-> op])
  /\ UNCHANGED <<obs, nremaps, stale>>

InsertL2(vpn, op) ==
  /\ nops = 0
  /\ Commit(l2_insert(Globals, vpn, pt[vpn], op = OP_WRITE),
            [fn |-> "l2_insert", arg |-> vpn, op |-> op])
  /\ UNCHANGED <<obs, nremaps, stale>>

NextVictim ==
  \/ \E vpn \in VPNs, op \in Ops : InsertL1(vpn, op)
  \/ \E vpn \in VPNs, op \in Ops : InsertL2(vpn, op)

SpecVictim == InitVictim /\ [][NextVictim]_vars

(* ------------------------------------------------------------------ *)
(* Properties                                                          *)
(* ------------------------------------------------------------------ *)
InL1(v) == l1_find(tlb_l1, v) >= 0
InL2(v) == l2_find(tlb_l2, v) >= 0
DirtyInL1(v) == \E i \in L1Idx : tlb_l1[i].valid /\ tlb_l1[i].dirty
                                 /\ tlb_l1[i].virtual_page_number = v
DirtyInL2(v) == \E i \in L2Idx : tlb_l2[i].valid /\ tlb_l2[i].dirty
                                 /\ tlb_l2[i].virtual_page_number = v
L1Full == \A i \in L1Idx : tlb_l1[i].valid
L2Full == \A i \in L2Idx : tlb_l2[i].valid

\* C1: in every reachable state each level holds at most one valid entry
\* for any given VPN.
C1_UniqueVpnPerLevel ==
  /\ \A i, j \in L1Idx :
       (tlb_l1[i].valid /\ tlb_l1[j].valid
        /\ tlb_l1[i].virtual_page_number = tlb_l1[j].virtual_page_number) => i = j
  /\ \A i, j \in L2Idx :
       (tlb_l2[i].valid /\ tlb_l2[j].valid
        /\ tlb_l2[i].virtual_page_number = tlb_l2[j].virtual_page_number) => i = j

\* Both levels are full, a page cached in L2 was brought back into L1 by an
\* L2 hit, and a dirty L1 victim was inserted into L2 where its page already
\* had an entry.
C1_Witness ==
  /\ L1Full /\ L2Full
  /\ tlb_l2_hits >= 1
  /\ \E k \in 1 .. Len(l2_inserts) : l2_inserts[k].dirty /\ ~l2_inserts[k].fresh

\* C2: no lost writes: a page written since its frame last reached the sink
\* is dirty in L1 or in L2; so a written page is absent from both levels only
\* after the sink was handed compose_pa(frame written, 0) for it.
C2_NoLostWrites ==
  \A v \in VPNs :
    /\ unsunk[v] => (DirtyInL1(v) \/ DirtyInL2(v))
    /\ (written[v] /\ ~InL1(v) /\ ~InL2(v)) => (~unsunk[v] /\ sunk[v] >= 1)

\* A written page has left both levels, its frame handed to the sink, while
\* another written page lives on only as a dirty L2 entry.
C2_Witness ==
  \E v, u \in VPNs :
    /\ written[v] /\ ~InL1(v) /\ ~InL2(v) /\ sunk[v] >= 1
    /\ unsunk[u] /\ ~InL1(u) /\ DirtyInL2(u)

\* C3 as stated: once a written page has left both levels (no write to it
\* in between), the sink was invoked for it exactly once since the write.
C3_ExactlyOnce_Original ==
  \A v \in VPNs : (written[v] /\ ~InL1(v) /\ ~InL2(v)) => sunk[v] = 1

\* C3 amended: once a written page has left both levels, the sink was
\* invoked for it at least once and at most twice since the write (the L2
\* copy and the L1 copy are both dirty after a write that misses L1, and each
\* is written back on its own way out).
C3_OnceOrTwice ==
  \A v \in VPNs : (written[v] /\ ~InL1(v) /\ ~InL2(v)) => sunk[v] \in {1, 2}

\* A written page has left both levels after two write-backs.
C3_Witness ==
  \E v \in VPNs : written[v] /\ ~InL1(v) /\ ~InL2(v) /\ sunk[v] = 2

\* C4: between tlb_init calls no hit/miss counter decreases; a tlb_translate
\* adds 1 to exactly one of L1 hits / L1 misses, on an L1 miss adds 1 to
\* exactly one of L2 hits / L2 misses, on an L1 hit leaves both L2 counters;
\* so L1 hits + L1 misses is the number of translates and L2 hits + L2 misses
\* is the number of L1 misses.
C4_Counters ==
  [][LET d1h == tlb_l1_hits' - tlb_l1_hits
         d1m == tlb_l1_misses' - tlb_l1_misses
         d2h == tlb_l2_hits' - tlb_l2_hits
         d2m == tlb_l2_misses' - tlb_l2_misses
     IN /\ call'.fn # "tlb_init" => (d1h >= 0 /\ d1m >= 0 /\ d2h >= 0 /\ d2m >= 0)
        /\ call'.fn = "tlb_translate" =>
             /\ <<d1h, d1m>> \in {<<1, 0>>, <<0, 1>>}
             /\ d1m = 1 => <<d2h, d2m>> \in {<<1, 0>>, <<0, 1>>}
             /\ d1h = 1 => <<d2h, d2m>> = <<0, 0>>
        /\ tlb_l1_hits' + tlb_l1_misses' = translate_calls'
        /\ tlb_l2_hits' + tlb_l2_misses' = tlb_l1_misses']_vars

\* Translates of all three kinds (L1 hit, L2 hit, full miss) have been counted.
C4_Witness ==
  /\ tlb_l1_hits >= 1 /\ tlb_l2_hits >= 1 /\ tlb_l2_misses >= 1
  /\ call.fn = "tlb_translate"

\* C5: after N+1 pages were inserted into an empty level of capacity N, with
\* no hit, re-insert or invalidation touching the level in between, the
\* first-inserted page is no longer found in the level and the other N are.
C5_LruOrder ==
  /\ (fill1.ok /\ Len(fill1.seq) = TLB_L1_SIZE + 1) =>
       /\ ~InL1(fill1.seq[1])
       /\ \A k \in 2 .. (TLB_L1_SIZE + 1) : InL1(fill1.seq[k])
  /\ (fill2.ok /\ Len(fill2.seq) = TLB_L2_SIZE + 1) =>
       /\ ~InL2(fill2.seq[1])
       /\ \A k \in 2 .. (TLB_L2_SIZE + 1) : InL2(fill2.seq[k])

\* Each level has just taken its (N+1)-th insert in a row.
C5_Witness ==
  /\ fill1.ok /\ Len(fill1.seq) = TLB_L1_SIZE + 1 /\ L1Full
  /\ fill2.ok /\ Len(fill2.seq) = TLB_L2_SIZE + 1 /\ L2Full

\* C6: tlb_invalidate of a page valid in neither level changes no counter,
\* no entry and no LRU clock, calls neither the sink nor the resolver; only
\* the simulated time advances.
C6_InvalidateAbsent ==
  [][(call'.fn = "tlb_invalidate" /\ ~InL1(call'.arg) /\ ~InL2(call'.arg)) =>
       /\ UNCHANGED prog
       /\ wb_calls' = <<>> /\ pt_calls' = <<>>
       /\ time' > time]_vars

\* An invalidate of an absent page has returned, the levels holding entries.
C6_Witness ==
  /\ call.fn = "tlb_invalidate" /\ ~InL1(call.arg) /\ ~InL2(call.arg)
  /\ tlb_l1_invalidations = 0 /\ tlb_l2_invalidations = 0
  /\ L1Full /\ L2Full

\* C7: when tlb_translate returns, the page is valid in L1; a translate that
\* directly follows a translate to the same page is an L1 hit, does not call
\* the resolver and returns compose_pa(PPN cached in L1, its own offset).
C7_HitAfterTranslate ==
  [][/\ call'.fn = "tlb_translate" =>
          l1_find(tlb_l1', va_to_vpn(call'.arg)) >= 0
     /\ (call.fn = "tlb_translate" /\ call'.fn = "tlb_translate"
         /\ va_to_vpn(call'.arg) = va_to_vpn(call.arg)) =>
          /\ tlb_l1_hits' = tlb_l1_hits + 1
          /\ tlb_l1_misses' = tlb_l1_misses
          /\ pt_calls' = <<>>
          /\ InL1(va_to_vpn(call'.arg))
          /\ ret' = compose_pa(
                      tlb_l1[l1_find(tlb_l1, va_to_vpn(call'.arg))].physical_page_number,
                      va_offset(call'.arg))]_vars

\* Two translates were made, the second an L1 hit at a non-zero offset of
\* the page the first one (an L2 hit or a full miss) brought into L1.
C7_Witness ==
  /\ call.fn = "tlb_translate" /\ va_offset(call.arg) # 0
  /\ nops = 2 /\ translate_calls = 2 /\ tlb_l1_hits = 1 /\ tlb_l1_misses = 1
  /\ ret = compose_pa(pt[va_to_vpn(call.arg)], va_offset(call.arg))

\* C8: when a translate's insert into a full L1 evicts a dirty entry, then at
\* the translate's return the victim's page is not valid in L1 and is valid in
\* L2 with the same PPN and dirty; a clean victim is dropped with no L2 insert
\* (the only L2 insert of the call, if any, is that of the requested page).
C8_Promotion ==
  [][(call'.fn = "tlb_translate" /\ ~InL1(va_to_vpn(call'.arg)) /\ L1Full) =>
       LET w == tlb_l1[l1_choose_victim(tlb_l1)]
       IN /\ l1_find(tlb_l1', w.virtual_page_number) < 0
          /\ w.dirty =>
               \E i \in L2Idx :
                 /\ tlb_l2'[i].valid /\ tlb_l2'[i].dirty
                 /\ tlb_l2'[i].virtual_page_number = w.virtual_page_number
                 /\ tlb_l2'[i].physical_page_number = w.physical_page_number
          /\ ~w.dirty =>
               \A k \in 1 .. Len(l2_inserts') :
                 l2_inserts'[k].vpn = va_to_vpn(call'.arg)]_vars

\* A translate has returned during which a dirty L1 victim of another page
\* was inserted into L2.
C8_Witness ==
  /\ call.fn = "tlb_translate"
  /\ \E k \in 1 .. Len(l2_inserts) :
       /\ l2_inserts[k].dirty /\ l2_inserts[k].vpn # va_to_vpn(call.arg)
       /\ ~InL1(l2_inserts[k].vpn) /\ DirtyInL2(l2_inserts[k].vpn)

\* C9: every entry of L1 and of L2 that is dirty is valid.
C9_DirtyImpliesValid ==
  /\ \A i \in L1Idx : tlb_l1[i].dirty => tlb_l1[i].valid
  /\ \A i \in L2Idx : tlb_l2[i].dirty => tlb_l2[i].valid

\* Dirty entries were invalidated in both levels and a dirty entry remains.
C9_Witness ==
  /\ tlb_l1_invalidations >= 1 /\ tlb_l2_invalidations >= 1
  /\ wb_calls # <<>> /\ call.fn = "tlb_invalidate"
  /\ \E v \in VPNs : DirtyInL1(v)

\* C10 as stated: every invalid entry has dirty = false, last_access = 0,
\* VPN = 0 and PPN = 0.
C10_CanonicalReset_Original ==
  /\ \A i \in L1Idx : ~tlb_l1[i].valid => tlb_l1[i] = ZeroEntry
  /\ \A i \in L2Idx : ~tlb_l2[i].valid => tlb_l2[i] = ZeroEntry

\* C10 amended: every invalid entry has dirty = false and last_access = 0
\* (eviction and invalidation leave the VPN and PPN fields as they were).
C10_InvalidResetFlags ==
  /\ \A i \in L1Idx : ~tlb_l1[i].valid =>
       (~tlb_l1[i].dirty /\ tlb_l1[i].last_access = 0)
  /\ \A i \in L2Idx : ~tlb_l2[i].valid =>
       (~tlb_l2[i].dirty /\ tlb_l2[i].last_access = 0)

\* An invalidated entry of each level still names the page and frame it cached.
C10_Witness ==
  /\ \E i \in L1Idx : ~tlb_l1[i].valid /\ tlb_l1[i].virtual_page_number # 0
                      /\ tlb_l1[i].physical_page_number # 0
  /\ \E i \in L2Idx : ~tlb_l2[i].valid /\ tlb_l2[i].virtual_page_number # 0
                      /\ tlb_l2[i].physical_page_number # 0

\* The PPN cached for page v in L1 / in L2 (v valid in the level).
PpnInL1(v) == tlb_l1[l1_find(tlb_l1, v)].physical_page_number
PpnInL2(v) == tlb_l2[l2_find(tlb_l2, v)].physical_page_number

\* C11: in every reachable state a VPN valid in both L1 and L2 has the same
\* PPN in the two entries, also when the resolver answers with different
\* frames for the same VPN at different times.
C11_PpnAgreement ==
  \A v \in VPNs : (InL1(v) /\ InL2(v)) => PpnInL1(v) = PpnInL2(v)

\* The resolver's frame for a page has changed while the page is cached in
\* both levels (with the old frame), and another page resolved since is in
\* both levels as well.
C11_Witness ==
  /\ nremaps >= 1
  /\ \E v, u \in VPNs :
       /\ v # u
       /\ InL1(v) /\ InL2(v) /\ PpnInL1(v) # pt[v]
       /\ InL1(u) /\ InL2(u) /\ PpnInL1(u) = pt[u]

\* The time a step charged outside the resolver (the resolver charges
\* PT_LATENCY_NS per call).
OwnTime == (time' - time) - PT_LATENCY_NS * Len(pt_calls')

\* C12: the TLB advances the clock by exactly TLB_L1_LATENCY_NS on a translate
\* that hits L1, by exactly TLB_L1_LATENCY_NS + TLB_L2_LATENCY_NS on a
\* translate that misses L1 (the resolver's own charge set aside) and on every
\* tlb_invalidate, whether the page is present or not; evictions and
\* write-backs charge nothing, and the clock never decreases.
C12_TimeAccounting ==
  [][/\ time' >= time
     /\ call'.fn = "tlb_translate" =>
          OwnTime = IF InL1(va_to_vpn(call'.arg))
                    THEN TLB_L1_LATENCY_NS
                    ELSE TLB_L1_LATENCY_NS + TLB_L2_LATENCY_NS
     /\ call'.fn = "tlb_invalidate" =>
          time' - time = TLB_L1_LATENCY_NS + TLB_L2_LATENCY_NS
     /\ call'.fn = "tlb_init" => time' = time]_vars

\* A full-miss translate has returned that evicted a dirty L1 entry into L2
\* and wrote a dirty L2 entry back, after an L1 hit was charged.
C12_Witness ==
  /\ call.fn = "tlb_translate" /\ pt_calls # <<>>
  /\ wb_calls # <<>> /\ Len(l2_inserts) >= 2
  /\ tlb_l1_hits >= 1

\* C13 as stated: tlb_invalidate(v) is a no-op for a level that does not hold
\* v: when L2 has no valid entry for v the call leaves the L2 array and the L2
\* invalidation counter unchanged and calls the sink zero times, also when L1
\* holds v dirty; when L1 has no valid entry for v the call leaves the L1
\* array and the L1 invalidation counter unchanged.
C13_NoOpForAbsentLevel ==
  [][call'.fn = "tlb_invalidate" =>
       /\ ~InL2(call'.arg) =>
            /\ tlb_l2' = tlb_l2
            /\ tlb_l2_invalidations' = tlb_l2_invalidations
            /\ wb_calls' = <<>>
       /\ ~InL1(call'.arg) =>
            /\ tlb_l1' = tlb_l1
            /\ tlb_l1_invalidations' = tlb_l1_invalidations]_vars

\* What remains of C13: the L1 half as stated; the L2 half when L1 does not
\* hold v dirty.
C13_NoOpUnlessDirtyInL1 ==
  [][call'.fn = "tlb_invalidate" =>
       /\ (~InL2(call'.arg) /\ ~DirtyInL1(call'.arg)) =>
            /\ tlb_l2' = tlb_l2
            /\ tlb_l2_invalidations' = tlb_l2_invalidations
            /\ wb_calls' = <<>>
       /\ ~InL1(call'.arg) =>
            /\ tlb_l1' = tlb_l1
            /\ tlb_l1_invalidations' = tlb_l1_invalidations]_vars

\* A tlb_invalidate has returned whose page was dirty in L1 and absent from
\* L2: the L1 copy was inserted into a full L2, whose dirty victim (another
\* page) went to the sink, then the page itself went to the sink and an L2
\* invalidation was counted.
C13_Witness ==
  /\ call.fn = "tlb_invalidate"
  /\ Len(l2_inserts) = 1 /\ l2_inserts[1].fresh /\ l2_inserts[1].vpn = call.arg
  /\ Len(wb_calls) = 2 /\ wb_calls[1].vpn # call.arg /\ wb_calls[2].vpn = call.arg
  /\ tlb_l2_invalidations = 1
  /\ ~L2Full

\* C14: when tlb_invalidate(v) returns, v is valid in neither L1 nor L2 (also
\* when the call inserted the dirty L1 copy into L2), and a tlb_translate to
\* page v that comes next is an L1 miss and an L2 miss and calls the resolver
\* exactly once.
C14_GoneAfterInvalidate ==
  [][/\ call'.fn = "tlb_invalidate" =>
          /\ l1_find(tlb_l1', call'.arg) < 0
          /\ l2_find(tlb_l2', call'.arg) < 0
     /\ (call.fn = "tlb_invalidate" /\ call'.fn = "tlb_translate"
         /\ va_to_vpn(call'.arg) = call.arg) =>
          /\ tlb_l1_misses' = tlb_l1_misses + 1
          /\ tlb_l2_misses' = tlb_l2_misses + 1
          /\ tlb_l1_hits' = tlb_l1_hits
          /\ tlb_l2_hits' = tlb_l2_hits
          /\ Len(pt_calls') = 1]_vars

\* A page written once went to the sink twice, the second time through the
\* one invalidation made (its dirty L1 copy inserted into L2), and the
\* translate to it that followed went to the resolver.
C14_Witness ==
  /\ call.fn = "tlb_translate" /\ call.op = OP_READ
  /\ Len(pt_calls) = 1
  /\ written[va_to_vpn(call.arg)] /\ sunk[va_to_vpn(call.arg)] = 2
  /\ tlb_l1_invalidations = 1 /\ tlb_l2_invalidations = 1
  /\ nops = 5 /\ translate_calls = 4

\* Sink call e was made for L2 slot i: the slot was valid and dirty at that
\* moment, e.pa is its frame at offset 0, and the next thing the call did to
\* L2 was to reset that slot (valid, dirty, last_access) and nothing else.
SinkFromL2Slot(e, i) ==
  /\ e.l2[i].valid /\ e.l2[i].dirty
  /\ e.l2[i].virtual_page_number = e.vpn
  /\ e.pa = compose_pa(e.l2[i].physical_page_number, 0)
  /\ Len(l2_resets) > e.seq
  /\ l2_resets[e.seq + 1].idx = i
  /\ l2_resets[e.seq + 1].l2 =
       [e.l2 EXCEPT ![i].valid = FALSE, ![i].dirty = FALSE, ![i].last_access = 0]

C15_SinkOnlyFromL2 ==
  \A k \in 1 .. Len(wb_calls) : \E i \in L2Idx : SinkFromL2Slot(wb_calls[k], i)

\* A translate or an invalidate that removes a dirty entry from L1 calls
\* l2_insert with the entry's VPN and PPN and dirty = true.
C15_DirtyL1GoesToL2 ==
  [][call'.fn # "tlb_init" =>
       \A i \in L1Idx :
         (/\ tlb_l1[i].valid /\ tlb_l1[i].dirty
          /\ l1_find(tlb_l1', tlb_l1[i].virtual_page_number) # i) =>
           \E k \in 1 .. Len(l2_inserts') :
             /\ l2_inserts'[k].vpn = tlb_l1[i].virtual_page_number
             /\ l2_inserts'[k].ppn = tlb_l1[i].physical_page_number
             /\ l2_inserts'[k].dirty]_vars

\* C15: every call of the write-back sink passes compose_pa(PPN, 0) of an
\* entry that is valid and dirty in L2 at that moment and that is reset to
\* invalid right after (never an L1 entry, never a clean entry); and a dirty
\* L1 entry removed by eviction or invalidation goes through l2_insert with
\* dirty = true.
C15_WriteBackDirection == [](C15_SinkOnlyFromL2) /\ C15_DirtyL1GoesToL2

\* An invalidate has returned that inserted the dirty L1 copy into a full L2:
\* the sink took the dirty L2 victim, then the inserted copy itself.
C15_Witness ==
  /\ call.fn = "tlb_invalidate"
  /\ Len(wb_calls) = 2 /\ Len(l2_resets) = 2
  /\ \E k \in 1 .. Len(l2_inserts) : l2_inserts[k].dirty /\ l2_inserts[k].fresh
  /\ wb_calls[1].seq = 0 /\ wb_calls[2].seq = 1
  /\ wb_calls[1].pa # wb_calls[2].pa

\* C16: a tlb_translate that hits in L1 changes only the L1 hit counter, the
\* L1 LRU clock and the hit entry's last_access (and its dirty flag, set on a
\* write); every other L1 entry, the whole L2 array (an L2 copy of the page
\* included), the L2 LRU clock and the other five counters stay as they
\* were, and neither the resolver nor the sink is called.
C16_L1HitFrame ==
  [][(call'.fn = "tlb_translate" /\ InL1(va_to_vpn(call'.arg))) =>
       LET i == l1_find(tlb_l1, va_to_vpn(call'.arg))
       IN /\ tlb_l1_hits' = tlb_l1_hits + 1
          /\ lru_tick' = lru_tick + 1
          /\ tlb_l1' = [tlb_l1 EXCEPT
                          ![i].last_access = lru_tick + 1,
                          ![i].dirty = IF call'.op = OP_WRITE THEN TRUE ELSE @]
          /\ tlb_l2' = tlb_l2
          /\ lru_tick2' = lru_tick2
          /\ UNCHANGED <<tlb_l1_misses, tlb_l1_invalidations,
                         tlb_l2_hits, tlb_l2_misses, tlb_l2_invalidations>>
          /\ pt_calls' = <<>> /\ wb_calls' = <<>> /\ l2_inserts' = <<>>]_vars

\* A write has hit L1 on a page whose L2 copy is clean: the L1 entry is dirty,
\* the L2 copy still clean, with another page cached beside it.
C16_Witness ==
  /\ call.fn = "tlb_translate" /\ call.op = OP_WRITE
  /\ tlb_l1_hits >= 1
  /\ DirtyInL1(va_to_vpn(call.arg))
  /\ InL2(va_to_vpn(call.arg)) /\ ~DirtyInL2(va_to_vpn(call.arg))
  /\ L1Full /\ L2Full

\* The entry (VPN v, PPN ppn, dirty d) is valid in both arrays.
InBothAs(l1, l2, v, ppn, d) ==
  /\ l1_find(l1, v) >= 0
  /\ l1[l1_find(l1, v)].physical_page_number = ppn
  /\ l1[l1_find(l1, v)].dirty = d
  /\ l2_find(l2, v) >= 0
  /\ l2[l2_find(l2, v)].physical_page_number = ppn
  /\ l2[l2_find(l2, v)].dirty = d

\* C17: tlb_translate calls the resolver exactly once when the page is valid
\* in neither level at the call, and not at all otherwise; tlb_invalidate
\* never calls it.  When such a full-miss translate returns, the page is valid
\* in both L1 and L2 with the PPN of the resolver's result, dirty in both
\* levels iff the access was a write, and the value returned is the
\* resolver's result unchanged.
C17_ResolverOnFullMiss ==
  [][/\ call'.fn = "tlb_invalidate" => pt_calls' = <<>>
     /\ call'.fn = "tlb_translate" =>
          IF ~InL1(va_to_vpn(call'.arg)) /\ ~InL2(va_to_vpn(call'.arg))
          THEN /\ Len(pt_calls') = 1
               /\ pt_calls'[1].va = call'.arg /\ pt_calls'[1].op = call'.op
               /\ ret' = pt_calls'[1].pa
               /\ InBothAs(tlb_l1', tlb_l2', va_to_vpn(call'.arg),
                           pa_to_ppn(pt_calls'[1].pa), call'.op = OP_WRITE)
          ELSE pt_calls' = <<>>]_vars

\* A read of a page written (and written back) earlier has missed both full
\* levels at a non-zero offset: the call evicted a dirty L1 entry into L2,
\* wrote a dirty L2 entry back, and left the page clean in both levels.
C17_Witness ==
  /\ call.fn = "tlb_translate" /\ call.op = OP_READ /\ va_offset(call.arg) # 0
  /\ Len(pt_calls) = 1 /\ ret = pt_calls[1].pa
  /\ written[va_to_vpn(call.arg)]
  /\ InBothAs(tlb_l1, tlb_l2, va_to_vpn(call.arg), pa_to_ppn(ret), FALSE)
  /\ Len(l2_inserts) >= 2 /\ wb_calls # <<>>

\* The slot victim selection is to return for an array: the lowest-index
\* invalid slot if there is one, else the slot with the smallest last_access,
\* the lowest index among equals.
ExpectedVictim(arr, Idx) ==
  IF \E i \in Idx : ~arr[i].valid
  THEN CHOOSE i \in Idx : ~arr[i].valid /\ \A j \in Idx : ~arr[j].valid => i <= j
  ELSE CHOOSE i \in Idx :
         \A j \in Idx : \/ arr[i].last_access < arr[j].last_access
                        \/ (arr[i].last_access = arr[j].last_access /\ i <= j)

\* C18: victim selection in either level returns the lowest-index invalid
\* slot whenever the level has one, so an insert resets no valid entry while
\* a free slot exists; only with all slots valid it returns the slot with the
\* smallest last_access, the lowest index winning ties.
C18_VictimSelection ==
  [][/\ (call'.fn = "l1_insert" /\ ~InL1(call'.arg)) =>
          /\ l1_choose_victim(tlb_l1) = ExpectedVictim(tlb_l1, L1Idx)
          /\ l1_find(tlb_l1', call'.arg) = ExpectedVictim(tlb_l1, L1Idx)
          /\ ~L1Full => \A i \in L1Idx : tlb_l1[i].valid => tlb_l1'[i] = tlb_l1[i]
     /\ (call'.fn = "l2_insert" /\ ~InL2(call'.arg)) =>
          /\ l2_choose_victim(tlb_l2) = ExpectedVictim(tlb_l2, L2Idx)
          /\ l2_find(tlb_l2', call'.arg) = ExpectedVictim(tlb_l2, L2Idx)
          /\ ~L2Full => \A i \in L2Idx : tlb_l2[i].valid => tlb_l2'[i] = tlb_l2[i]]_vars

\* l2_insert has taken slot 0 of a full L2 whose entries all carried the same
\* last_access (the array is the one the sink saw when the dirty victim was
\* written back).
C18_Witness ==
  /\ call.fn = "l2_insert"
  /\ Len(wb_calls) = 1 /\ Len(l2_resets) = 1 /\ l2_resets[1].idx = 0
  /\ \A i, j \in L2Idx :
       /\ wb_calls[1].l2[i].valid
       /\ wb_calls[1].l2[i].last_access = wb_calls[1].l2[j].last_access
  /\ tlb_l2[0].virtual_page_number = call.arg

\* C19: the cache is transparent.  With a resolver that maps each page to a
\* frame, and a frame that changes only with a tlb_invalidate of the page
\* coming before the next translate to it (the page is not in stale at the
\* translate), every tlb_translate returns compose_pa(the resolver's current
\* frame of the page, the offset of the address), whichever of L1, L2 or the
\* resolver serves it.
C19_Transparent ==
  [][(call'.fn = "tlb_translate" /\ va_to_vpn(call'.arg) \notin stale) =>
       ret' = compose_pa(pt[va_to_vpn(call'.arg)], va_offset(call'.arg))]_vars

\* A page cached in both levels got a new frame and was invalidated; the
\* translates to it that followed, the last one an L1 hit at a non-zero
\* offset, returned the new frame.
C19_Witness ==
  /\ call.fn = "tlb_translate" /\ va_offset(call.arg) # 0
  /\ nremaps = 1 /\ stale = {}
  /\ pt[va_to_vpn(call.arg)] # (va_to_vpn(call.arg) % NumPPN) + 1
  /\ ret = compose_pa(pt[va_to_vpn(call.arg)], va_offset(call.arg))
  /\ tlb_l1_invalidations = 1 /\ tlb_l2_invalidations = 1
  /\ tlb_l1_hits = 1 /\ pt_calls = <<>>

\* The valid entries of arr (slots Idx) carry pairwise distinct stamps, each
\* at least 1 and at most the level's clock tick.
StampsOk(arr, Idx, tick) ==
  /\ \A i \in Idx : arr[i].valid => (1 <= arr[i].last_access /\ arr[i].last_access <= tick)
  /\ \A i, j \in Idx :
       (arr[i].valid /\ arr[j].valid /\ i # j) => arr[i].last_access # arr[j].last_access

\* Both levels, and every L2 array an l2_insert of the last call found (the
\* arrays victim selection runs on in mid-call).
C20_Stamps ==
  /\ StampsOk(tlb_l1, L1Idx, lru_tick)
  /\ StampsOk(tlb_l2, L2Idx, lru_tick2)
  /\ \A k \in 1 .. Len(l2_inserts) : StampsOk(l2_inserts[k].l2, L2Idx, lru_tick2)

C20_ClocksGrow ==
  [][call'.fn # "tlb_init" => (lru_tick' >= lru_tick /\ lru_tick2' >= lru_tick2)]_vars

\* C20: in every reachable state the valid entries of each level have
\* pairwise distinct last_access values, each at least 1 and at most the
\* level's LRU clock, and neither clock decreases between tlb_init calls; so
\* the least recently used valid entry is unique whenever a victim is
\* selected and the lowest-index tie-break is never exercised.
C20_StampInvariant == [](C20_Stamps) /\ C20_ClocksGrow

\* Both levels are full after an L2 hit, the two clocks apart, the last call
\* having inserted into a full L2.
C20_Witness ==
  /\ L1Full /\ L2Full
  /\ tlb_l2_hits >= 1
  /\ lru_tick # lru_tick2
  /\ \E k \in 1 .. Len(l2_inserts) : \A i \in L2Idx : l2_inserts[k].l2[i].valid

====
